---- MODULE Spec2Model ----
(***************************************************************************)
(* A model of lizenz (src/main.rs): license-header verification and        *)
(* synthesis.  Strings are sequences of one-character strings, so that     *)
(* str::lines, str::trim, str::trim_start_matches, str::trim_end_matches   *)
(* and format! are computed character by character, as the code does.      *)
(***************************************************************************)
EXTENDS Integers, Sequences, FiniteSets, TLC

VARIABLES
    langs,      \* load_languages' HashMap<String, Language>: the names loaded
    config,     \* Config after the defaults were merged in (license, languages)
    command,    \* Command::Verify or Command::Fix
    files,      \* the files of the command, in input order
    disk,       \* file name -> file content
    disk0,      \* the disk when the process started
    idx,        \* number of files of the `for file in files` loop begun so far
    outcome,    \* "running", "ok" (Ok(())) or the error main returned
    log,        \* per file begun: what verify_file returned and what Fix did
    conf,       \* the CommentConfig selected by the last Fix (NoRule: none)
    header,     \* the header built by the last Fix
    text,       \* verify_file's `text` (the file content being verified)
    tree,       \* the root node's named children, in source order
    cursor,     \* number of children the extraction loop has visited
    comments,   \* verify_file's `comments`
    is_valid,   \* verify_file's result ("none" before it returns)
    pc,         \* the place reached in verify_file and the Fix branch
    dir,        \* the entries read_dir_utf8 yields, in order
    dpos        \* number of directory entries load_languages has visited

vars == << langs, config, command, files, disk, disk0, idx, outcome, log, conf,
           header, text, tree, cursor, comments, is_valid, pc, dir, dpos >>

(***************************************************************************)
(* Strings                                                                 *)
(***************************************************************************)
NL == <<"\n">>
SP == <<" ">>

\* char::is_whitespace, restricted to the characters of the model
WhiteSpace == {" ", "\n", "\r", "\t"}

StartsWith(s, p) == Len(p) <= Len(s) /\ SubSeq(s, 1, Len(p)) = p

EndsWith(s, p) == Len(p) <= Len(s) /\ SubSeq(s, Len(s) - Len(p) + 1, Len(s)) = p

\* str::trim_start_matches: the pattern is removed repeatedly; the empty
\* pattern removes nothing
RECURSIVE TrimStartMatches(_, _)
TrimStartMatches(s, p) ==
    IF p # <<>> /\ StartsWith(s, p)
    THEN TrimStartMatches(SubSeq(s, Len(p) + 1, Len(s)), p)
    ELSE s

\* str::trim_end_matches
RECURSIVE TrimEndMatches(_, _)
TrimEndMatches(s, p) ==
    IF p # <<>> /\ EndsWith(s, p)
    THEN TrimEndMatches(SubSeq(s, 1, Len(s) - Len(p)), p)
    ELSE s

\* str::trim
Trim(s) ==
    LET keep == {i \in 1..Len(s) : s[i] \notin WhiteSpace}
    IN  IF keep = {} THEN <<>>
        ELSE SubSeq(s, CHOOSE i \in keep : \A j \in keep : i <= j,
                       CHOOSE i \in keep : \A j \in keep : j <= i)

\* position of the first occurrence of character c in s, 0 when there is none
FirstIndex(s, c) ==
    LET at == {i \in 1..Len(s) : s[i] = c}
    IN  IF at = {} THEN 0 ELSE CHOOSE i \in at : \A j \in at : i <= j

\* position where the first occurrence of p in s at or after `from` starts, 0
\* when there is none
FindFrom(s, p, from) ==
    LET at == {i \in from..(Len(s) - Len(p) + 1) : SubSeq(s, i, i + Len(p) - 1) = p}
    IN  IF at = {} THEN 0 ELSE CHOOSE i \in at : \A j \in at : i <= j

\* a line of str::lines loses one "\r" before its "\n"
StripCR(s) == IF EndsWith(s, <<"\r">>) THEN SubSeq(s, 1, Len(s) - 1) ELSE s

\* str::lines: split at "\n"; a final line without "\n" is kept as it is, and
\* no empty line follows a final "\n"
RECURSIVE Lines(_)
Lines(s) ==
    IF s = <<>> THEN <<>>
    ELSE LET k == FirstIndex(s, "\n")
         IN  IF k = 0 THEN <<s>>
             ELSE <<StripCR(SubSeq(s, 1, k - 1))>> \o Lines(SubSeq(s, k + 1, Len(s)))

\* [&str]::join
RECURSIVE Join(_, _)
Join(ss, sep) ==
    IF ss = <<>> THEN <<>>
    ELSE IF Len(ss) = 1 THEN ss[1]
    ELSE ss[1] \o sep \o Join(Tail(ss), sep)

\* Iterator::collect::<String>() and String::extend: concatenation
RECURSIVE Concat(_)
Concat(ss) == IF ss = <<>> THEN <<>> ELSE ss[1] \o Concat(Tail(ss))

\* Iterator::take
Take(ss, n) == SubSeq(ss, 1, IF n < Len(ss) THEN n ELSE Len(ss))

(***************************************************************************)
(* Comment rules                                                           *)
(***************************************************************************)
\* CommentKind::Single(prefix)
Single(prefix) == [kind |-> "Single", prefix |-> prefix]

\* CommentKind::Multi { start, end, between }: `between` is <<>> for None, which
\* is what between.as_deref().unwrap_or_default() makes of it
Multi(start, end, between) ==
    [kind |-> "Multi", start |-> start, end |-> end, between |-> between]

\* CommentConfig
Rule(name, kind, preferred) ==
    [tree_sitter_name |-> name, comment_kind |-> kind, preferred |-> preferred]

\* the `else` of the let-else in Fix: no CommentConfig was found
NoRule == [tree_sitter_name |-> "", comment_kind |-> [kind |-> "None"], preferred |-> FALSE]

(***************************************************************************)
(* Configuration                                                           *)
(***************************************************************************)
SlashSlash == <<"/", "/">>
SlashStar == <<"/", "*">>
StarSlash == <<"*", "/">>
Star == <<"*">>
Hash == <<"#">>

GlobRs == <<"*", ".", "r", "s">>
GlobToml == <<"*", ".", "t", "o", "m", "l">>
GlobSh == <<"*", ".", "s", "h">>

\* LanguageConfig
LanguageConfig(file_endings, rules) == [file_endings |-> file_endings, comments |-> rules]

RustBlock == Rule("block_comment", Multi(SlashStar, StarSlash, Star), FALSE)
RustLine == Rule("line_comment", Single(SlashSlash), TRUE)
TomlComment == Rule("comment", Single(Hash), TRUE)

\* default_languages()
default_languages ==
    [n \in {"bash", "rust", "toml"} |->
        CASE n = "bash" -> LanguageConfig(<<GlobSh>>, <<>>)
          [] n = "rust" -> LanguageConfig(<<GlobRs>>, <<RustBlock, RustLine>>)
          [] n = "toml" -> LanguageConfig(<<GlobToml>>, <<TomlComment>>)]

\* config.languages.entry(name).or_insert(lang), for every default language:
\* a language the user configured is kept
MergeDefaults(user) ==
    [n \in DOMAIN user \cup DOMAIN default_languages |->
        IF n \in DOMAIN user THEN user[n] ELSE default_languages[n]]

\* glob_match for the patterns of the model: a literal, or "*" and a literal
glob_match(glob, name) ==
    IF glob # <<>> /\ Head(glob) = "*" THEN EndsWith(name, Tail(glob)) ELSE glob = name

\* load_language: the language whose globs match the file name, then its
\* grammar.  The configurations of the model give no two languages a common
\* file name, so the HashMap's iteration order does not show.
load_language(ls, cfg, file) ==
    LET found == {n \in DOMAIN cfg.languages :
                     \E i \in 1..Len(cfg.languages[n].file_endings) :
                         glob_match(cfg.languages[n].file_endings[i], file)}
    IN  IF found = {} THEN [err |-> "UnresolvedLanguage", name |-> "", comments |-> <<>>]
        ELSE LET name == CHOOSE n \in found : TRUE
             IN  IF name \notin ls
                 THEN [err |-> "MissingGrammar", name |-> name, comments |-> <<>>]
                 ELSE [err |-> "none", name |-> name,
                       comments |-> cfg.languages[name].comments]

(***************************************************************************)
(* Header synthesis (Command::Fix)                                         *)
(***************************************************************************)
\* mutant of SingleLine: every line gets the separating space
SingleLineSpace(prefix, line) == prefix \o SP \o line \o NL

\* the closure of the Single arm: one license line to one header line
SingleLine(prefix, line) ==
    IF line = <<>> THEN prefix \o NL ELSE prefix \o SP \o line \o NL

\* CommentKind::Single: the lines of the license text, each behind the prefix
HeaderSingle(prefix, license) ==
    LET ls == Lines(license)
    IN  Concat([i \in 1..Len(ls) |-> SingleLine(prefix, ls[i])])

\* CommentKind::Multi
HeaderMulti(start, end, between, license) ==
    LET ls == Lines(license)
        line_count == Len(ls)
    IN  IF line_count <= 1
        THEN start \o SP \o license \o SP \o end
        ELSE (start \o SP \o ls[1])
             \o Concat([i \in 1..(line_count - 2) |-> between \o SP \o ls[i + 1]])
             \o (SP \o ls[line_count] \o SP \o end)

\* let header = match &conf.comment_kind
Header(kind, license) ==
    IF kind.kind = "Single" THEN HeaderSingle(kind.prefix, license)
    ELSE HeaderMulti(kind.start, kind.end, kind.between, license)

\* mutant of SelectRule: the first rule, preferred or not
SelectFirstRule(rules) == IF rules = <<>> THEN NoRule ELSE rules[1]

\* comments.iter().find(|conf| conf.preferred).or_else(|| comments.first())
SelectRule(rules) ==
    LET pref == {i \in 1..Len(rules) : rules[i].preferred}
    IN  IF pref # {} THEN rules[CHOOSE i \in pref : \A j \in pref : i <= j]
        ELSE IF rules # <<>> THEN rules[1]
        ELSE NoRule

(***************************************************************************)
(* The parser (tree-sitter, an external engine): the root's named children *)
(***************************************************************************)
\* what the grammar of a language makes a comment
Grammar(name) ==
    CASE name = "rust" -> [line_start |-> SlashSlash, line_name |-> "line_comment",
                           block_start |-> SlashStar, block_end |-> StarSlash,
                           block_name |-> "block_comment"]
      [] OTHER -> [line_start |-> Hash, line_name |-> "comment",
                   block_start |-> <<>>, block_end |-> <<>>, block_name |-> ""]

\* a comment starts at the head of s
AtComment(g, s) ==
    \/ g.block_start # <<>> /\ StartsWith(s, g.block_start)
    \/ StartsWith(s, g.line_start)

\* tree.root_node().named_children(): white space separates nodes; a block
\* comment runs to its first end token, a line comment to the end of its line,
\* anything else to the next white space or comment
RECURSIVE NamedChildren(_, _)
NamedChildren(g, s) ==
    IF s = <<>> THEN <<>>
    ELSE IF s[1] \in WhiteSpace THEN NamedChildren(g, Tail(s))
    ELSE IF g.block_start # <<>> /\ StartsWith(s, g.block_start)
    THEN LET e == FindFrom(s, g.block_end, Len(g.block_start) + 1)
             stop == e + Len(g.block_end) - 1
         IN  IF e = 0 THEN <<[name |-> "ERROR", text |-> s]>>
             ELSE <<[name |-> g.block_name, text |-> SubSeq(s, 1, stop)]>>
                  \o NamedChildren(g, SubSeq(s, stop + 1, Len(s)))
    ELSE IF StartsWith(s, g.line_start)
    THEN LET k == FirstIndex(s, "\n")
             stop == IF k = 0 THEN Len(s) ELSE k - 1
         IN  <<[name |-> g.line_name, text |-> SubSeq(s, 1, stop)]>>
             \o NamedChildren(g, SubSeq(s, stop + 1, Len(s)))
    ELSE LET ends == {i \in 1..Len(s) :
                         \/ i = Len(s)
                         \/ s[i + 1] \in WhiteSpace
                         \/ AtComment(g, SubSeq(s, i + 1, Len(s)))}
             stop == CHOOSE i \in ends : \A j \in ends : i <= j
         IN  <<[name |-> "item", text |-> SubSeq(s, 1, stop)]>>
             \o NamedChildren(g, SubSeq(s, stop + 1, Len(s)))

(***************************************************************************)
(* Comment extraction and comparison (verify_file)                         *)
(***************************************************************************)
\* comments.iter().find(|n| n.tree_sitter_name == child.grammar_name())
FindRule(rules, name) ==
    LET hit == {i \in 1..Len(rules) : rules[i].tree_sitter_name = name}
    IN  IF hit = {} THEN NoRule ELSE rules[CHOOSE i \in hit : \A j \in hit : i <= j]

\* mutant of SingleBody: the prefix is removed once (strip_prefix)
SingleBodyOnce(prefix, t) ==
    Trim(IF StartsWith(t, prefix) THEN SubSeq(t, Len(prefix) + 1, Len(t)) ELSE t) \o NL

\* the Single arm: what one line comment appends to `comments`
SingleBody(prefix, t) == Trim(TrimStartMatches(t, prefix)) \o NL

\* the Multi arm: what one block comment appends to `comments`
MultiBody(start, end, between, t) ==
    LET ls == Lines(TrimEndMatches(TrimStartMatches(t, start), end))
    IN  Join([i \in 1..Len(ls) |-> Trim(TrimStartMatches(ls[i], between))], NL)

\* match &conf.comment_kind
NodeBody(kind, t) ==
    IF kind.kind = "Single" THEN SingleBody(kind.prefix, t)
    ELSE MultiBody(kind.start, kind.end, kind.between, t)

\* one turn of the loop over the named children
AppendNode(rules, acc, node) ==
    LET rule == FindRule(rules, node.name)
    IN  IF rule = NoRule THEN acc ELSE acc \o NodeBody(rule.comment_kind, node.text)

\* the whole loop
RECURSIVE ExtractFrom(_, _, _)
ExtractFrom(rules, acc, nodes) ==
    IF nodes = <<>> THEN acc
    ELSE ExtractFrom(rules, AppendNode(rules, acc, nodes[1]), Tail(nodes))

\* mutant of Truncate: every extracted line is compared
NoTruncate(body, license) == Join(Lines(body), NL)

\* comments.lines().take(config.license.text.lines().count()).join("\n")
Truncate(body, license) == Join(Take(Lines(body), Len(Lines(license))), NL)

\* comments.trim() == config.license.text.trim()
Conforms(body, license) == Trim(body) = Trim(license)

\* verify_file after load_language and read_to_string succeeded and the parser
\* returned a tree
VerifyText(name, rules, license, content) ==
    Conforms(Truncate(ExtractFrom(rules, <<>>, NamedChildren(Grammar(name), content)),
                      license),
             license)

(***************************************************************************)
(* Bounds and inputs                                                       *)
(***************************************************************************)
MaxLicenseLines == 2    \* lines of a license text, in a run over files
MaxHeaderLines == 3     \* lines of a license text, in a header round trip
MaxFiles == 2           \* files of one command
MaxTail == 3            \* characters behind the "//" of a verified text
MaxDirEntries == 3      \* entries of the grammar directory

\* all sequences over `alphabet` of at most n elements
SeqUpTo(alphabet, n) == UNION {[1..k -> alphabet] : k \in 0..n}

\* the lines of the license texts of a run over files
LicenseLine == {<<>>, <<"a">>}

\* the lines of the license texts of a header round trip
HeaderLine == {<<>>, <<"a">>, <<" ", "b">>}

\* license texts of at most n lines; an empty last line gives the text a final
\* line end
LicenseTexts(lines, n) == {Join(ls, NL) : ls \in SeqUpTo(lines, n)}

FileRs == <<"a", ".", "r", "s">>
FileToml == <<"b", ".", "t", "o", "m", "l">>
FileSh == <<"c", ".", "s", "h">>
FileXyz == <<"d", ".", "x", "y", "z">>
FileNames == {FileRs, FileToml, FileSh, FileXyz}

\* files without a license header
DiskBare ==
    [f \in FileNames |->
        CASE f = FileRs -> <<"x">>
          [] f = FileToml -> <<"k">>
          [] f = FileSh -> <<"e">>
          [] OTHER -> <<"z">>]

\* files that start with comments
DiskCommented ==
    [f \in FileNames |->
        CASE f = FileRs -> <<"/", "/", " ", "a", "\n", "/", "*", " ", "a", " ", "*", "/", "x">>
          [] f = FileToml -> <<"#", " ", "a", "\n", "k">>
          [] f = FileSh -> <<"#", " ", "a">>
          [] OTHER -> <<>>]

Disks == {DiskBare, DiskCommented}

RustBlockBare == Rule("block_comment", Multi(SlashStar, StarSlash, <<>>), TRUE)

\* the `languages` table of lizenz.toml: absent, or rust with other rules
UserLanguages ==
    { <<>>,
      [n \in {"rust"} |-> LanguageConfig(<<GlobRs>>, <<RustBlock>>)],
      [n \in {"rust"} |-> LanguageConfig(<<GlobRs>>,
          <<Rule("line_comment", Single(SlashSlash), FALSE), RustBlockBare,
            Rule("block_comment", Multi(SlashStar, StarSlash, Star), TRUE)>>)] }

\* the registries load_languages may have returned
Registries == {{"bash", "rust", "toml"}, {"bash", "rust"}}

\* the call of the file's processing that fails, if it is reached
Faults == {"none", "read_to_string", "parse", "read", "open", "write_header",
           "write_content"}

(***************************************************************************)
(* main: the loop over the files                                           *)
(***************************************************************************)
\* mutant of NeedsFix: every verified file is rewritten
NeedsFixAlways(valid) == TRUE

\* `if !is_valid`
NeedsFix(valid) == ~valid

\* mutant of Propagate: the error is dropped and the loop goes on
PropagateIgnored(err) == "running"

\* the `?` on verify_file and on the calls of the Fix branch: Err(e) leaves main
Propagate(err) == err

\* what the File Rewriter leaves on the disk: the header and the old content,
\* or what was written when a write failed (the file was truncated by then)
Rewritten(hdr, old_content, fault) ==
    CASE fault \in {"read", "open"} -> {old_content}
      [] fault = "write_header" /\ hdr # <<>> ->
            {SubSeq(hdr, 1, k) : k \in 0..(Len(hdr) - 1)}
      [] fault = "write_content" /\ old_content # <<>> ->
            {hdr \o SubSeq(old_content, 1, k) : k \in 0..(Len(old_content) - 1)}
      [] OTHER -> {hdr \o old_content}

\* the error of the Fix branch's I/O, "none" when every call succeeded
RewriteError(hdr, old_content, fault) ==
    IF \/ fault \in {"read", "open"}
       \/ fault = "write_header" /\ hdr # <<>>
       \/ fault = "write_content" /\ old_content # <<>>
    THEN "IoFailure" ELSE "none"

\* verify_file(&langs, &config, &file): Ok(true), Ok(false) or the error.
\* `valid` is what the comparison gives when it is reached.
verify_file(lang, valid, fault) ==
    IF lang.err # "none" THEN lang.err
    ELSE IF fault = "read_to_string" THEN "IoFailure"
    ELSE IF fault = "parse" THEN "ParseFailure"
    ELSE IF valid THEN "true" ELSE "false"

\* what the run did to one file: verify_file's result, whether the file was
\* rewritten in full, and the error that ended the run there ("none": none)
Entry(file, result, fixed, err) ==
    [file |-> file, result |-> result, fixed |-> fixed, err |-> err]

\* the error verify_file returned, "none" for Ok(true) and Ok(false)
VerifyError(res) == IF res \in {"true", "false"} THEN "none" ELSE res

\* one turn of `for file in files` of Command::Verify
VerifyFile ==
    /\ pc = "main" /\ outcome = "running" /\ command = "verify" /\ idx < Len(files)
    /\ LET file == files[idx + 1]
           lang == load_language(langs, config, file)
           valid == VerifyText(lang.name, lang.comments, config.license.text, disk[file])
       IN  \E fault \in Faults :
             LET res == verify_file(lang, valid, fault)
             IN  /\ idx' = idx + 1
                 /\ log' = Append(log, Entry(file, res, FALSE, VerifyError(res)))
                 /\ is_valid' = (res = "true")
                 /\ outcome' = IF VerifyError(res) = "none" THEN outcome
                                ELSE Propagate(res)
    /\ UNCHANGED << langs, config, command, files, disk, disk0, conf, header, text,
                    tree, cursor, comments, pc, dir, dpos >>

\* one turn of `for file in files` of Command::Fix
FixFile ==
    /\ pc = "main" /\ outcome = "running" /\ command = "fix" /\ idx < Len(files)
    /\ LET file == files[idx + 1]
           lang == load_language(langs, config, file)
           valid == VerifyText(lang.name, lang.comments, config.license.text, disk[file])
           rule == SelectRule(lang.comments)
           hdr == Header(rule.comment_kind, config.license.text)
       IN  \E fault \in Faults :
             LET res == verify_file(lang, valid, fault)
                 err == RewriteError(hdr, disk[file], fault)
             IN  /\ idx' = idx + 1
                 /\ is_valid' = (res = "true")
                 /\ IF VerifyError(res) # "none"
                    THEN /\ outcome' = Propagate(res)
                         /\ log' = Append(log, Entry(file, res, FALSE, res))
                         /\ UNCHANGED << disk, conf, header >>
                    ELSE IF ~NeedsFix(res = "true")
                    THEN /\ log' = Append(log, Entry(file, res, FALSE, "none"))
                         /\ UNCHANGED << outcome, disk, conf, header >>
                    ELSE IF rule = NoRule
                    THEN /\ outcome' = Propagate("NoCommentSyntax")
                         /\ conf' = rule
                         /\ log' = Append(log, Entry(file, res, FALSE, "NoCommentSyntax"))
                         /\ UNCHANGED << disk, header >>
                    ELSE /\ conf' = rule
                         /\ header' = hdr
                         /\ \E content \in Rewritten(hdr, disk[file], fault) :
                                disk' = [disk EXCEPT ![file] = content]
                         /\ outcome' = IF err = "none" THEN outcome ELSE Propagate(err)
                         /\ log' = Append(log, Entry(file, res, err = "none", err))
    /\ UNCHANGED << langs, config, command, files, disk0, text, tree, cursor,
                    comments, pc, dir, dpos >>

\* the loop is over: Ok(())
Finish ==
    /\ pc = "main" /\ outcome = "running" /\ idx = Len(files)
    /\ outcome' = "ok"
    /\ UNCHANGED << langs, config, command, files, disk, disk0, idx, log, conf,
                    header, text, tree, cursor, comments, is_valid, pc, dir, dpos >>

\* main after load_languages, load_configuration and the merge of the defaults
Init ==
    /\ langs \in Registries
    /\ \E license \in LicenseTexts(LicenseLine, MaxLicenseLines), user \in UserLanguages :
          config = [license |-> [text |-> license], languages |-> MergeDefaults(user)]
    /\ command \in {"verify", "fix"}
    /\ files \in SeqUpTo(FileNames, MaxFiles)
    /\ disk \in Disks
    /\ disk0 = disk
    /\ idx = 0 /\ outcome = "running" /\ log = <<>>
    /\ conf = NoRule /\ header = <<>>
    /\ text = <<>> /\ tree = <<>> /\ cursor = 0 /\ comments = <<>>
    /\ is_valid = FALSE /\ pc = "main"
    /\ dir = <<>> /\ dpos = 0

Next == VerifyFile \/ FixFile \/ Finish

Spec == Init /\ [][Next]_vars

(***************************************************************************)
(* One file, step by step: Fix on an empty file, then verify_file on what  *)
(* it wrote; or verify_file on a given text                                *)
(***************************************************************************)
\* the language of the file being processed
Lang == load_language(langs, config, files[1])

\* the Fix branch on an empty file: the rule is selected, the header built
\* and written in front of no content
Synthesize ==
    /\ pc = "fix"
    /\ conf' = SelectRule(Lang.comments)
    /\ header' = Header(conf'.comment_kind, config.license.text)
    /\ disk' = [disk EXCEPT ![files[1]] = header' \o disk[files[1]]]
    /\ pc' = "parse"
    /\ UNCHANGED << langs, config, command, files, disk0, idx, outcome, log, text,
                    tree, cursor, comments, is_valid, dir, dpos >>

\* read_to_string, parser.parse and tree.root_node().named_children()
ParseText ==
    /\ pc = "parse"
    /\ text' = disk[files[1]]
    /\ tree' = NamedChildren(Grammar(Lang.name), text')
    /\ cursor' = 0 /\ comments' = <<>>
    /\ pc' = "walk"
    /\ UNCHANGED << langs, config, command, files, disk, disk0, idx, outcome, log,
                    conf, header, is_valid, dir, dpos >>

\* a child that a comment rule names: its text is stripped and appended
VisitComment ==
    /\ pc = "walk" /\ cursor < Len(tree)
    /\ FindRule(Lang.comments, tree[cursor + 1].name) # NoRule
    /\ comments' = AppendNode(Lang.comments, comments, tree[cursor + 1])
    /\ cursor' = cursor + 1
    /\ UNCHANGED << langs, config, command, files, disk, disk0, idx, outcome, log,
                    conf, header, text, tree, is_valid, pc, dir, dpos >>

\* a child that no comment rule names
SkipNode ==
    /\ pc = "walk" /\ cursor < Len(tree)
    /\ FindRule(Lang.comments, tree[cursor + 1].name) = NoRule
    /\ cursor' = cursor + 1
    /\ UNCHANGED << langs, config, command, files, disk, disk0, idx, outcome, log,
                    conf, header, text, tree, comments, is_valid, pc, dir, dpos >>

\* after the loop: the truncation and the comparison
Compare ==
    /\ pc = "walk" /\ cursor = Len(tree)
    /\ comments' = Truncate(comments, config.license.text)
    /\ is_valid' = Conforms(comments', config.license.text)
    /\ pc' = "done"
    /\ UNCHANGED << langs, config, command, files, disk, disk0, idx, outcome, log,
                    conf, header, text, tree, cursor, dir, dpos >>

\* the texts verify_file is given: "//" and at most MaxTail characters
TailChar == {"/", " ", "a", "\n"}

VerifiedTexts == {SlashSlash \o t : t \in SeqUpTo(TailChar, MaxTail)}

\* a header round trip of a license text under a language with one rule, or
\* the verification of a text under the default rules
InitVerify ==
    /\ langs = {"bash", "rust", "toml"}
    /\ command = "fix"
    /\ idx = 1 /\ outcome = "running" /\ log = <<>>
    /\ conf = NoRule /\ header = <<>>
    /\ text = <<>> /\ tree = <<>> /\ cursor = 0 /\ comments = <<>>
    /\ is_valid = FALSE
    /\ dir = <<>> /\ dpos = 0
    /\ \/ /\ pc = "fix"
          /\ files \in {<<FileRs>>, <<FileToml>>}
          /\ disk = [f \in FileNames |-> <<>>]
          /\ \E license \in LicenseTexts(HeaderLine, MaxHeaderLines),
                user \in UserLanguages :
                config = [license |-> [text |-> license],
                          languages |-> MergeDefaults(user)]
       \/ /\ pc = "parse"
          /\ files = <<FileRs>>
          /\ \E t \in VerifiedTexts : disk = [f \in FileNames |-> t]
          /\ config = [license |-> [text |-> <<"a">>],
                       languages |-> MergeDefaults(<<>>)]
    /\ disk0 = disk

NextVerify == Synthesize \/ ParseText \/ VisitComment \/ SkipNode \/ Compare

SpecVerify == InitVerify /\ [][NextVerify]_vars

(***************************************************************************)
(* load_languages                                                          *)
(***************************************************************************)
\* a directory entry: whether read_dir_utf8 yields it (Ok or Err), what
\* file_type gives, its file stem ("": none) and what loading the library gives
DirEntry(read, type, stem, lib) == [read |-> read, type |-> type, stem |-> stem, lib |-> lib]

DirEntries ==
    { DirEntry("err", "file", "", "ok"),          \* the entry cannot be read
      DirEntry("ok", "err", "rust", "ok"),        \* its type cannot be determined
      DirEntry("ok", "dir", "rust", "ok"),        \* a directory
      DirEntry("ok", "file", "", "ok"),           \* no file stem
      DirEntry("ok", "file", "rust", "ok"),
      DirEntry("ok", "file", "toml", "ok"),
      DirEntry("ok", "file", "bash", "link"),     \* Library::new fails
      DirEntry("ok", "file", "toml", "symbol") }  \* library.get fails

\* mutant of load_ts_lib: a missing constructor symbol is not an error
load_ts_lib_unchecked(entry) == IF entry.lib = "link" THEN "err" ELSE "ok"

\* load_ts_lib: Library::new(entry)?, then library.get(symbol)?
load_ts_lib(entry) == IF entry.lib \in {"link", "symbol"} THEN "err" ELSE "ok"

\* the entries the loop skips with `continue`
Skipped(entry) ==
    \/ entry.read = "err"
    \/ entry.type \in {"err", "dir"}
    \/ entry.stem = ""

\* args.tree_sitter_grammars.read_dir_utf8().into_diagnostic()? fails
ReadDirFails ==
    /\ pc = "load" /\ outcome = "running" /\ dpos = 0
    /\ outcome' = "GrammarLoadFailure"
    /\ UNCHANGED << langs, config, command, files, disk, disk0, idx, log, conf,
                    header, text, tree, cursor, comments, is_valid, pc, dir, dpos >>

\* the three `continue`s of the loop
SkipEntry ==
    /\ pc = "load" /\ outcome = "running" /\ dpos < Len(dir)
    /\ Skipped(dir[dpos + 1])
    /\ dpos' = dpos + 1
    /\ UNCHANGED << langs, config, command, files, disk, disk0, idx, outcome, log,
                    conf, header, text, tree, cursor, comments, is_valid, pc, dir >>

\* load_ts_lib(entry.path(), lang_name)?; langs.insert(lang_name, language)
LoadEntry ==
    /\ pc = "load" /\ outcome = "running" /\ dpos < Len(dir)
    /\ ~Skipped(dir[dpos + 1])
    /\ dpos' = dpos + 1
    /\ IF load_ts_lib(dir[dpos + 1]) = "ok"
       THEN langs' = langs \cup {dir[dpos + 1].stem} /\ UNCHANGED outcome
       ELSE langs' = {} /\ outcome' = "GrammarLoadFailure"
    /\ UNCHANGED << config, command, files, disk, disk0, idx, log, conf, header,
                    text, tree, cursor, comments, is_valid, pc, dir >>

\* Ok(langs)
LoadDone ==
    /\ pc = "load" /\ outcome = "running" /\ dpos = Len(dir)
    /\ outcome' = "loaded"
    /\ UNCHANGED << langs, config, command, files, disk, disk0, idx, log, conf,
                    header, text, tree, cursor, comments, is_valid, pc, dir, dpos >>

InitLoad ==
    /\ dir \in SeqUpTo(DirEntries, MaxDirEntries)
    /\ dpos = 0 /\ langs = {} /\ outcome = "running" /\ pc = "load"
    /\ config = [license |-> [text |-> <<>>], languages |-> MergeDefaults(<<>>)]
    /\ command = "verify" /\ files = <<>>
    /\ disk = DiskBare /\ disk0 = disk
    /\ idx = 0 /\ log = <<>>
    /\ conf = NoRule /\ header = <<>>
    /\ text = <<>> /\ tree = <<>> /\ cursor = 0 /\ comments = <<>>
    /\ is_valid = FALSE

NextLoad == ReadDirFails \/ SkipEntry \/ LoadEntry \/ LoadDone

SpecLoad == InitLoad /\ [][NextLoad]_vars

(***************************************************************************)
(* Properties of a run over files (Spec)                                   *)
(***************************************************************************)
\* the entry of the file the run begun last
Last == log[Len(log)]

\* the comment rules of the language of a file whose language and grammar
\* were found
RulesOf(file) == load_language(langs, config, file).comments

\* verify_file's answer for a file as it is on the disk now
VerifiesNow(file) ==
    LET lang == load_language(langs, config, file)
    IN  VerifyText(lang.name, lang.comments, config.license.text, disk[file])

\* C1: after fix completed successfully on a file, a following verify of the
\* file reports conformant, and a second fix would leave it as the first did.
C1_FixIsIdempotent ==
    (log # <<>> /\ Last.fixed) =>
        /\ VerifiesNow(Last.file)
        /\ ~NeedsFix(VerifiesNow(Last.file))

\* C3: a step changes a file only if the command is fix, the file is the one
\* being processed, its verification returned non-conforming and a comment
\* rule was selected; verify writes nothing, fix leaves a conforming file as it
\* is, and a file whose processing fails with UnresolvedLanguage,
\* MissingGrammar, ParseFailure or NoCommentSyntax is left unchanged.
C3_WritesOnlyWhenFixing ==
    [][ /\ \A f \in FileNames :
              disk'[f] # disk[f] =>
                  /\ command = "fix"
                  /\ f = files[idx + 1]
                  /\ log'[Len(log')].result = "false"
                  /\ conf' # NoRule
        /\ command = "verify" => disk' = disk
        /\ (Len(log') > Len(log) /\ log'[Len(log')].result = "true") => disk' = disk
        /\ outcome' \in {"UnresolvedLanguage", "MissingGrammar", "ParseFailure",
                         "NoCommentSyntax"} => disk' = disk ]_vars

\* C3 witness: a fix run rewrote its first file and failed on its second with
\* UnresolvedLanguage
C3_Witness ==
    /\ command = "fix" /\ idx = 2 /\ outcome = "UnresolvedLanguage"
    /\ log[1].fixed /\ disk[files[1]] # disk0[files[1]]
    /\ disk[files[2]] = disk0[files[2]]

\* the files begun so far
Begun == {files[i] : i \in 1..idx}

\* C4: the files are processed in input order, one per step and each in full
\* before the next; the first file whose processing fails ends the run with
\* that error, so that no later file is read, verified or rewritten, and the
\* files rewritten before keep their content.
C4_InOrderUntilFirstFailure ==
    /\ [](/\ Len(log) = idx
          /\ \A i \in 1..Len(log) : log[i].file = files[i]
          /\ \A i \in 1..Len(log) :
                log[i].err # "none" => i = Len(log) /\ outcome = log[i].err
          /\ \A f \in FileNames \ Begun : disk[f] = disk0[f]
          /\ outcome = "ok" => idx = Len(files))
    /\ [][ /\ outcome = "running"
           /\ idx' \in {idx, idx + 1}
           /\ \A f \in FileNames : disk'[f] # disk[f] => f = files[idx + 1] ]_vars

\* C4 witness: the first of two files was rewritten, the second failed, and the
\* first keeps its rewritten content
C4_Witness ==
    /\ Len(files) = 2 /\ idx = 2 /\ files[1] # files[2]
    /\ log[1].fixed /\ log[2].err = "MissingGrammar" /\ outcome = "MissingGrammar"
    /\ disk[files[1]] = header \o disk0[files[1]]

\* the rule the claim names: the first preferred rule, else the first rule
IsFirstPreferredElseFirst(rule, rules) ==
    \/ \E i \in 1..Len(rules) :
          /\ rule = rules[i] /\ rules[i].preferred
          /\ \A j \in 1..(i - 1) : ~rules[j].preferred
    \/ /\ \A i \in 1..Len(rules) : ~rules[i].preferred
       /\ rules # <<>> /\ rule = rules[1]

\* C6: when fix finds a file non-conforming, the rule it uses is the first
\* preferred rule of the language if there is one, else the first rule; with no
\* rule at all the fix fails with NoCommentSyntax.
C6_RuleSelection ==
    [][ (Len(log') > Len(log) /\ command = "fix" /\ log'[Len(log')].result = "false") =>
            IF RulesOf(files[idx + 1]) = <<>>
            THEN outcome' = "NoCommentSyntax" /\ disk' = disk
            ELSE /\ IsFirstPreferredElseFirst(conf', RulesOf(files[idx + 1]))
                 /\ header' = Header(conf'.comment_kind, config.license.text) ]_vars

\* C6 witness: a fix used a preferred rule that is not the first rule of its
\* language, which has a later preferred rule too
C6_Witness ==
    /\ log # <<>> /\ Last.fixed
    /\ conf.preferred
    /\ Len(RulesOf(Last.file)) = 3
    /\ conf = RulesOf(Last.file)[2]
    /\ ~RulesOf(Last.file)[1].preferred
    /\ RulesOf(Last.file)[3].preferred

\* the header the claim names for a Single rule
RECURSIVE C7_Header(_, _)
C7_Header(prefix, ls) ==
    IF ls = <<>> THEN <<>>
    ELSE (IF ls[1] = <<>> THEN prefix \o <<"\n">> ELSE prefix \o <<" ">> \o ls[1] \o <<"\n">>)
         \o C7_Header(prefix, Tail(ls))

\* C7: a successful fix under a Single rule leaves the file equal to the header
\* followed by the original bytes, the header being, per license line, prefix,
\* space, line and newline, or prefix and newline for an empty line.
C7_SingleHeaderPrepended ==
    [][ (/\ Len(log') > Len(log)
         /\ log'[Len(log')].fixed
         /\ conf'.comment_kind.kind = "Single") =>
            disk'[files[idx + 1]] =
                C7_Header(conf'.comment_kind.prefix, Lines(config.license.text))
                \o disk[files[idx + 1]] ]_vars

\* C7 witness: a file was fixed under a Single rule with a license text that
\* has an empty line and a non-empty line
C7_Witness ==
    /\ log # <<>> /\ Last.fixed
    /\ conf.comment_kind.kind = "Single"
    /\ \E i, j \in 1..Len(Lines(config.license.text)) :
          /\ Lines(config.license.text)[i] = <<>>
          /\ Lines(config.license.text)[j] # <<>>
    /\ disk[Last.file] # disk0[Last.file]

\* C10: with the empty license text every file that resolves to a loaded
\* grammar and parses is reported conformant, and fix builds no header and
\* rewrites no file.
C10_EmptyLicenseConforms ==
    config.license.text = <<>> =>
        /\ \A i \in 1..Len(log) :
              log[i].err = "none" => log[i].result = "true" /\ ~log[i].fixed
        /\ \A i \in 1..Len(log) :
              log[i].err \in {"none", "UnresolvedLanguage", "MissingGrammar",
                              "ParseFailure", "IoFailure"}
        /\ disk = disk0
        /\ conf = NoRule /\ header = <<>>

\* C10 witness: a fix run with the empty license text went over a file that
\* starts with comments, and reported it conformant
C10_Witness ==
    /\ config.license.text = <<>> /\ command = "fix" /\ outcome = "ok"
    /\ log # <<>> /\ Last.result = "true"
    /\ Last.file = FileRs /\ disk0 = DiskCommented

(***************************************************************************)
(* Properties of the header round trip and of the extraction (SpecVerify)  *)
(***************************************************************************)
\* C2: the header built from a license text under a rule, extracted under the
\* same rule and truncated to the license's line count, equals the license
\* text, both trimmed.
C2_RoundTrip ==
    (pc = "done" /\ conf # NoRule) => Trim(comments) = Trim(config.license.text)

\* C8: under a Multi rule and a license text of N >= 2 lines the header has
\* exactly N lines: start, space and the first line; between, space and the
\* line for each interior line; space, the last line, space and end.
C8_MultiHeaderLinePerLine ==
    LET kind == conf.comment_kind
        ls == Lines(config.license.text)
        hl == Lines(header)
        N == Len(ls)
    IN  (pc # "fix" /\ kind.kind = "Multi" /\ N >= 2) =>
            /\ Len(hl) = N
            /\ hl[1] = kind.start \o <<" ">> \o ls[1]
            /\ \A i \in 2..(N - 1) : hl[i] = kind.between \o <<" ">> \o ls[i]
            /\ hl[N] = <<" ">> \o ls[N] \o <<" ">> \o kind.end

\* the rule of the child the extraction loop visits next
NextRule == FindRule(Lang.comments, tree[cursor + 1].name)

\* k copies of p
RECURSIVE Repeat(_, _)
Repeat(p, k) == IF k = 0 THEN <<>> ELSE p \o Repeat(p, k - 1)

\* C9 as stated: for a child under a Single rule the prefix is stripped exactly
\* once from the start of its text, the rest is trimmed and one line is
\* appended to the comment body.
C9_PrefixStrippedOnce ==
    [][ (pc = "walk" /\ cursor' = cursor + 1 /\ NextRule.comment_kind.kind = "Single") =>
            LET t == tree[cursor + 1].text
                prefix == NextRule.comment_kind.prefix
                rest == IF StartsWith(t, prefix)
                        THEN SubSeq(t, Len(prefix) + 1, Len(t)) ELSE t
            IN  comments' = comments \o Trim(rest) \o <<"\n">> ]_vars

\* C9 as amended: every consecutive occurrence of the prefix at the start of
\* the text is stripped, the rest is trimmed and appended with one newline.
C9_PrefixStrippedRepeatedly ==
    [][ (pc = "walk" /\ cursor' = cursor + 1 /\ NextRule.comment_kind.kind = "Single") =>
            LET t == tree[cursor + 1].text
                prefix == NextRule.comment_kind.prefix
            IN  \E k \in 0..Len(t) :
                   LET rest == SubSeq(t, k * Len(prefix) + 1, Len(t))
                   IN  /\ t = Repeat(prefix, k) \o rest
                       /\ ~StartsWith(rest, prefix)
                       /\ comments' = comments \o Trim(rest) \o <<"\n">> ]_vars

\* C9 witness: the loop visited a line comment that starts with the prefix
\* twice and has text behind it
C9_Witness ==
    /\ pc = "walk" /\ cursor >= 1
    /\ FindRule(Lang.comments, tree[cursor].name).comment_kind.kind = "Single"
    /\ StartsWith(tree[cursor].text, SlashSlash \o SlashSlash \o <<"a">>)
    /\ comments = <<"a", "\n">>

(***************************************************************************)
(* Properties of load_languages (SpecLoad)                                 *)
(***************************************************************************)
\* the entries the claim calls failing: unreadable, of undeterminable type,
\* or with a library that does not link or lacks the constructor symbol
FailingEntry(e) ==
    \/ e.read = "err"
    \/ e.read = "ok" /\ e.type = "err"
    \/ e.read = "ok" /\ e.type = "file" /\ e.lib # "ok"

\* C5 as stated: if any entry of the grammar directory fails, the load aborts
\* and produces no registry; a registry is returned only when every
\* non-directory entry was loaded and stored under its file stem.
C5_AllOrNothing ==
    outcome = "loaded" =>
        \A i \in 1..Len(dir) :
            /\ ~FailingEntry(dir[i])
            /\ (dir[i].read = "ok" /\ dir[i].type = "file") => dir[i].stem \in langs

\* C5 as amended: the load aborts, with no registry, exactly when the directory
\* cannot be read or a library fails to link or lacks its constructor symbol;
\* entries that are unreadable, of undeterminable type, directories or without
\* a file stem are skipped, and the registry returned holds the stems of all
\* the other entries.
C5_AbortsOnLibraryFailureOnly ==
    LET tried == {i \in 1..Len(dir) : ~Skipped(dir[i])}
    IN  /\ outcome = "loaded" =>
              /\ \A i \in tried : dir[i].lib = "ok"
              /\ langs = {dir[i].stem : i \in tried}
        /\ outcome = "GrammarLoadFailure" =>
              /\ langs = {}
              /\ \/ dpos = 0
                 \/ dpos \in tried /\ dir[dpos].lib \in {"link", "symbol"}
        /\ (\E i \in tried : dir[i].lib # "ok") => outcome # "loaded"

\* C5 witness: a registry was returned for a directory with an unreadable
\* entry, an entry of undeterminable type and a grammar
C5_Witness ==
    /\ outcome = "loaded" /\ langs = {"rust"}
    /\ \E i, j \in 1..Len(dir) : dir[i].read = "err" /\ dir[j].type = "err"

====
